---- MODULE Spec2Model ----
(***************************************************************************)
(* Note CRUD handlers (controllers) over the relational note table.        *)
(* Every handler issues one store statement, except UpdateNote, which      *)
(* issues two (First, then Updates); other requests may run in between.    *)
(***************************************************************************)
EXTENDS Integers, Sequences, FiniteSets, TLC

\* ------------------------------------------------------------------ bounds
MaxIds == 2          \* rows the id generator hands out in a run
MaxTime == 1         \* time.Now() reads a value in 0..MaxTime
MaxInFlight == 1     \* UpdateNote requests between their two statements

\* ------------------------------------------------------------ input values
Titles == {"A", "B"}
TitleInputs == Titles \cup {""}
ContentInputs == {"", "x"}
CategoryInputs == {"", "c"}
\* *bool of UpdateNoteSchema: <<>> is nil, <<b>> points at b
PublishedPtrs == {<< >>, <<TRUE>>, <<FALSE>>}

\* a path parameter that is not the text of a UUID
NotAUuid == 0
PathIds == (1..MaxIds) \cup {NotAUuid}

\* raw query-string values, as sequences of characters; << >> is "not given"
QueryValues == { << >>, <<"1">>, <<"2">>, <<"0">>, <<"-", "1">>, <<"+", "2">>, <<"2", "x">> }

\* HTTP status codes (fiber.Status*)
StatusOK == 200
StatusCreated == 201
StatusNoContent == 204
StatusBadRequest == 400
StatusNotFound == 404
StatusConflict == 409
StatusBadGateway == 502

\* store error texts
ErrNone == ""
ErrRecordNotFound == "record not found"
ErrDuplicate == "duplicate key value violates unique constraint"
ErrBackend == "backend failure"

VARIABLES notes, nextId, inflight, gone, resp

vars == <<notes, nextId, inflight, gone, resp>>

\* --------------------------------------------------------------- the entity
Note(id, title, content, category, published, createdAt, updatedAt) ==
    [ID |-> id, Title |-> title, Content |-> content, Category |-> category,
     Published |-> published, CreatedAt |-> createdAt, UpdatedAt |-> updatedAt]

NoRow == Note(0, "", "", "", FALSE, 0, 0)

CreateNoteSchema == [Title : TitleInputs, Content : ContentInputs,
                     Category : CategoryInputs, Published : BOOLEAN]

UpdateNoteSchema == [Title : TitleInputs, Content : {"", "y"},
                     Category : CategoryInputs, Published : PublishedPtrs]

\* ---------------------------------------------------------------- validation
ErrorResponse(field, tag, value) == [Field |-> field, Tag |-> tag, Value |-> value]

\* a schema whose Content has lost its `validate:"required"` tag
ValidateStruct_ContentOptional(payload) ==
    IF payload.Title = "" THEN <<ErrorResponse("CreateNoteSchema.Title", "required", "")>> ELSE << >>

\* validate.Struct over the `validate:"required"` tags of CreateNoteSchema,
\* in field order; the empty sequence is the nil slice
ValidateStruct(payload) ==
    (IF payload.Title = "" THEN <<ErrorResponse("CreateNoteSchema.Title", "required", "")>> ELSE << >>)
    \o (IF payload.Content = "" THEN <<ErrorResponse("CreateNoteSchema.Content", "required", "")>> ELSE << >>)

\* ------------------------------------------------------------ the note table
RowOf(store, id) == IF id \in DOMAIN store THEN store[id] ELSE NoRow

\* a title column without its uniqueIndex
UniqueIndexViolated_NoIndex(store, id, title) == FALSE

\* the uniqueIndex on title: another row already holds the title
UniqueIndexViolated(store, id, title) ==
    \E j \in DOMAIN store : j # id /\ store[j].Title = title

\* a uuid column compared with text that is not a UUID is a statement error
UuidSyntaxOk(id) == id # NotAUuid

\* DB.Create: INSERT with a generated id
DBCreate(store, row, ok) ==
    IF ~ok THEN [Error |-> ErrBackend, store |-> store]
    ELSE IF UniqueIndexViolated(store, row.ID, row.Title)
         THEN [Error |-> ErrDuplicate, store |-> store]
         ELSE [Error |-> ErrNone, store |-> [j \in DOMAIN store \cup {row.ID} |->
                                              IF j = row.ID THEN row ELSE store[j]]]

\* DB.First(&note, "id = ?", noteId)
DBFirst(store, id, ok) ==
    IF ~ok \/ ~UuidSyntaxOk(id) THEN [Error |-> ErrBackend, note |-> NoRow]
    ELSE IF id \in DOMAIN store THEN [Error |-> ErrNone, note |-> store[id]]
         ELSE [Error |-> ErrRecordNotFound, note |-> NoRow]

Has(updates, col) == col \in DOMAIN updates

ApplyUpdates(row, updates) ==
    [row EXCEPT !.Title = IF Has(updates, "title") THEN updates["title"] ELSE @,
                !.Category = IF Has(updates, "category") THEN updates["category"] ELSE @,
                !.Content = IF Has(updates, "content") THEN updates["content"] ELSE @,
                !.Published = IF Has(updates, "published") THEN updates["published"] ELSE @,
                !.UpdatedAt = IF Has(updates, "updated_at") THEN updates["updated_at"] ELSE @]

\* a write that saves the whole row, inserting it when no row has the id
DBUpdates_Upsert(store, id, updates, ok) ==
    IF ~ok THEN [Error |-> ErrBackend, RowsAffected |-> 0, store |-> store]
    ELSE IF Has(updates, "title") /\ UniqueIndexViolated(store, id, updates["title"])
         THEN [Error |-> ErrDuplicate, RowsAffected |-> 0, store |-> store]
         ELSE [Error |-> ErrNone, RowsAffected |-> 1,
               store |-> [j \in DOMAIN store \cup {id} |->
                            IF j = id THEN ApplyUpdates([RowOf(store, id) EXCEPT !.ID = id], updates)
                            ELSE store[j]]]

\* DB.Model(&note).Updates(updates): UPDATE ... WHERE id = note.ID
DBUpdates(store, id, updates, ok) ==
    IF ~ok THEN [Error |-> ErrBackend, RowsAffected |-> 0, store |-> store]
    ELSE IF id \notin DOMAIN store THEN [Error |-> ErrNone, RowsAffected |-> 0, store |-> store]
    ELSE IF Has(updates, "title") /\ UniqueIndexViolated(store, id, updates["title"])
         THEN [Error |-> ErrDuplicate, RowsAffected |-> 0, store |-> store]
         ELSE [Error |-> ErrNone, RowsAffected |-> 1,
               store |-> [store EXCEPT ![id] = ApplyUpdates(@, updates)]]

\* DB.Delete(&models.Note{}, "id = ?", noteId)
DBDelete(store, id, ok) ==
    IF ~ok \/ ~UuidSyntaxOk(id) THEN [Error |-> ErrBackend, RowsAffected |-> 0, store |-> store]
    ELSE IF id \in DOMAIN store
         THEN [Error |-> ErrNone, RowsAffected |-> 1,
               store |-> [j \in DOMAIN store \ {id} |-> store[j]]]
         ELSE [Error |-> ErrNone, RowsAffected |-> 0, store |-> store]

\* the rows in the store's scan order (ascending id here)
RECURSIVE Scan(_, _)
Scan(store, ids) ==
    IF ids = {} THEN << >>
    ELSE LET m == CHOOSE i \in ids : \A j \in ids : i <= j
         IN <<store[m]>> \o Scan(store, ids \ {m})

Min(a, b) == IF a < b THEN a ELSE b

\* a query that has lost its Limit call
LimitOffset_NoLimit(rows, limit, offset, limitZero) ==
    LET from == IF offset > 0 THEN offset ELSE 0
    IN IF from >= Len(rows) THEN << >> ELSE SubSeq(rows, from + 1, Len(rows))

\* DB.Limit(limit).Offset(offset).Find(&notes): OFFSET is emitted only when
\* positive; LIMIT only when positive, or also when zero if limitZero
LimitOffset(rows, limit, offset, limitZero) ==
    LET from == IF offset > 0 THEN offset ELSE 0
        rest == IF from >= Len(rows) THEN << >> ELSE SubSeq(rows, from + 1, Len(rows))
    IN IF limit > 0 \/ (limit = 0 /\ limitZero)
       THEN SubSeq(rest, 1, Min(limit, Len(rest)))
       ELSE rest

DBFind(store, limit, offset, limitZero, ok) ==
    IF ~ok THEN [Error |-> ErrBackend, notes |-> << >>]
    ELSE [Error |-> ErrNone, notes |-> LimitOffset(Scan(store, DOMAIN store), limit, offset, limitZero)]

\* ------------------------------------------------------------ query parsing
Digits == {"0", "1", "2", "3", "4", "5", "6", "7", "8", "9"}

DigitValue(ch) ==
    CASE ch = "0" -> 0 [] ch = "1" -> 1 [] ch = "2" -> 2 [] ch = "3" -> 3 [] ch = "4" -> 4
      [] ch = "5" -> 5 [] ch = "6" -> 6 [] ch = "7" -> 7 [] ch = "8" -> 8 [] ch = "9" -> 9

\* c.Query(key, defaultValue)
Query(value, defaultValue) == IF value = << >> THEN defaultValue ELSE value

RECURSIVE AtoiDigits(_, _)
AtoiDigits(s, n) ==
    IF s = << >> THEN [n |-> n, err |-> FALSE]
    ELSE IF Head(s) \notin Digits THEN [n |-> 0, err |-> TRUE]
    ELSE AtoiDigits(Tail(s), n * 10 + DigitValue(Head(s)))

\* strconv.Atoi; the handler drops the error and keeps the number
Atoi(s) ==
    IF s = << >> THEN 0
    ELSE LET signed == Head(s) \in {"-", "+"}
             body == IF signed THEN Tail(s) ELSE s
             r == AtoiDigits(body, 0)
         IN IF body = << >> \/ r.err THEN 0
            ELSE IF Head(s) = "-" THEN 0 - r.n ELSE r.n

\* ------------------------------------------------------------------ responses
\* What a handler answered: the status it sent, and beside it the values the
\* handler had in hand: the path id, the row it read or wrote over, the error
\* of its last store statement, the columns of its updates map, the violation
\* list, and List's limit, offset and notes.
NoResponse ==
    [op |-> "none", status |-> 0, id |-> 0, note |-> NoRow, dbError |-> ErrNone,
     cols |-> {}, errors |-> << >>, limit |-> 0, offset |-> 0, results |-> 0, listed |-> << >>]

Respond(op, status, id, dbError) ==
    [NoResponse EXCEPT !.op = op, !.status = status, !.id = id, !.dbError = dbError]

NoPayload == [Title |-> "", Content |-> "", Category |-> "", Published |-> << >>]

Idle == [busy |-> FALSE, id |-> 0, payload |-> NoPayload]

Init ==
    /\ notes = << >>
    /\ nextId = 1
    /\ inflight = [s \in 1..MaxInFlight |-> Idle]
    /\ gone = {}
    /\ resp = NoResponse

\* an error mapping without the duplicate-key branch
CreateErrorStatus_NoConflict(err) == StatusBadGateway

\* the status CreateNoteHandler gives a failed Create
CreateErrorStatus(err) ==
    IF err = ErrDuplicate THEN StatusConflict ELSE StatusBadGateway

CreateNoteHandler(payload, now, bodyOk, ok) ==
    LET errors == ValidateStruct(payload)
        newNote == Note(nextId, payload.Title, payload.Content, payload.Category,
                        payload.Published, now, now)
        result == DBCreate(notes, newNote, ok)
    IN /\ nextId <= MaxIds
       /\ IF ~bodyOk
          THEN /\ resp' = Respond("Create", StatusBadRequest, 0, ErrNone)
               /\ UNCHANGED <<notes, nextId>>
          ELSE IF errors # << >>
          THEN /\ resp' = [Respond("Create", StatusBadRequest, 0, ErrNone) EXCEPT !.errors = errors]
               /\ UNCHANGED <<notes, nextId>>
          ELSE IF result.Error # ErrNone
          THEN /\ resp' = Respond("Create", CreateErrorStatus(result.Error), 0, result.Error)
               /\ notes' = result.store
               /\ UNCHANGED nextId
          ELSE /\ notes' = result.store
               /\ nextId' = nextId + 1
               /\ resp' = [Respond("Create", StatusCreated, newNote.ID, ErrNone) EXCEPT !.note = newNote]
       /\ UNCHANGED <<inflight, gone>>

FindNotes(pageQ, limitQ, limitZero, ok) ==
    LET page == Query(pageQ, <<"1">>)
        limit == Query(limitQ, <<"1", "0">>)
        intPage == Atoi(page)
        intLimit == Atoi(limit)
        offset == (intPage - 1) * intLimit
        results == DBFind(notes, intLimit, offset, limitZero, ok)
    IN /\ resp' = IF results.Error # ErrNone
                  THEN [Respond("List", StatusBadGateway, 0, results.Error)
                           EXCEPT !.limit = intLimit, !.offset = offset]
                  ELSE [Respond("List", StatusOK, 0, ErrNone)
                           EXCEPT !.limit = intLimit, !.offset = offset,
                                  !.results = Len(results.notes), !.listed = results.notes]
       /\ UNCHANGED <<notes, nextId, inflight, gone>>

FindNoteById(noteId, ok) ==
    LET result == DBFirst(notes, noteId, ok)
    IN /\ resp' = IF result.Error # ErrNone
                  THEN Respond("Get", IF result.Error = ErrRecordNotFound THEN StatusNotFound
                                      ELSE StatusBadGateway, noteId, result.Error)
                  ELSE [Respond("Get", StatusOK, noteId, ErrNone) EXCEPT !.note = result.note]
       /\ UNCHANGED <<notes, nextId, inflight, gone>>

\* a payload whose Published is a plain bool: false reads as not given
BuildUpdates_PlainBool(payload, now) ==
    (IF payload.Title # "" THEN "title" :> payload.Title ELSE << >>)
    @@ (IF payload.Category # "" THEN "category" :> payload.Category ELSE << >>)
    @@ (IF payload.Content # "" THEN "content" :> payload.Content ELSE << >>)
    @@ (IF payload.Published = <<TRUE>> THEN "published" :> TRUE ELSE << >>)
    @@ ("updated_at" :> now)

\* a map that takes the content whether or not the payload has one
BuildUpdates_ContentAlways(payload, now) ==
    (IF payload.Title # "" THEN "title" :> payload.Title ELSE << >>)
    @@ (IF payload.Category # "" THEN "category" :> payload.Category ELSE << >>)
    @@ ("content" :> payload.Content)
    @@ (IF payload.Published # << >> THEN "published" :> payload.Published[1] ELSE << >>)
    @@ ("updated_at" :> now)

\* the map UpdateNote builds from the payload
BuildUpdates(payload, now) ==
    (IF payload.Title # "" THEN "title" :> payload.Title ELSE << >>)
    @@ (IF payload.Category # "" THEN "category" :> payload.Category ELSE << >>)
    @@ (IF payload.Content # "" THEN "content" :> payload.Content ELSE << >>)
    @@ (IF payload.Published # << >> THEN "published" :> payload.Published[1] ELSE << >>)
    @@ ("updated_at" :> now)

\* UpdateNote up to and including the existence check
UpdateNoteFind(s, noteId, payload, bodyOk, ok) ==
    LET result == DBFirst(notes, noteId, ok)
    IN /\ ~inflight[s].busy
       /\ \A r \in 1..(s - 1) : inflight[r].busy     \* a request takes the first free slot
       /\ IF ~bodyOk
          THEN /\ resp' = Respond("Update", StatusBadRequest, noteId, ErrNone)
               /\ UNCHANGED inflight
          ELSE IF result.Error # ErrNone
          THEN /\ resp' = Respond("Update", IF result.Error = ErrRecordNotFound THEN StatusNotFound
                                            ELSE StatusBadGateway, noteId, result.Error)
               /\ UNCHANGED inflight
          ELSE /\ inflight' = [inflight EXCEPT ![s] = [busy |-> TRUE, id |-> result.note.ID, payload |-> payload]]
               /\ UNCHANGED resp
       /\ UNCHANGED <<notes, nextId, gone>>

\* UpdateNote from building the updates to the response
UpdateNoteWrite(s, now, ok) ==
    LET id == inflight[s].id
        updates == BuildUpdates(inflight[s].payload, now)
        result == DBUpdates(notes, id, updates, ok)
    IN /\ inflight[s].busy
       /\ notes' = result.store
       /\ inflight' = [inflight EXCEPT ![s] = Idle]
       /\ resp' = [Respond("Update", StatusOK, id, result.Error)
                     EXCEPT !.note = RowOf(notes, id), !.cols = DOMAIN updates]
       /\ UNCHANGED <<nextId, gone>>

DeleteNote(noteId, ok) ==
    LET result == DBDelete(notes, noteId, ok)
        status == IF result.RowsAffected = 0 THEN StatusNotFound
                  ELSE IF result.Error # ErrNone THEN StatusBadGateway
                  ELSE StatusNoContent
    IN /\ notes' = result.store
       /\ resp' = [Respond("Delete", status, noteId, result.Error) EXCEPT !.note = RowOf(notes, noteId)]
       /\ gone' = IF status = StatusNoContent THEN gone \cup {noteId} ELSE gone
       /\ UNCHANGED <<nextId, inflight>>

\* ------------------------------------------------- requests of a specification
Times == 0..MaxTime
Slots == 1..MaxInFlight

\* Spec: titles and the life cycle of a note; the other columns keep one value
CreateInputs == [Title : TitleInputs, Content : ContentInputs, Category : {""}, Published : {FALSE}]
UpdateInputs == [Title : TitleInputs, Content : {""}, Category : {""}, Published : {<< >>}]

Next ==
    \/ \E payload \in CreateInputs, bodyOk \in BOOLEAN, ok \in BOOLEAN :
          CreateNoteHandler(payload, 0, bodyOk, ok)
    \/ \E ok \in BOOLEAN : FindNotes(<< >>, << >>, TRUE, ok)
    \/ \E noteId \in PathIds, ok \in BOOLEAN : FindNoteById(noteId, ok)
    \/ \E s \in Slots, noteId \in PathIds, payload \in UpdateInputs,
          bodyOk \in BOOLEAN, ok \in BOOLEAN : UpdateNoteFind(s, noteId, payload, bodyOk, ok)
    \/ \E s \in Slots, ok \in BOOLEAN : UpdateNoteWrite(s, 0, ok)
    \/ \E noteId \in PathIds, ok \in BOOLEAN : DeleteNote(noteId, ok)

Spec == Init /\ [][Next]_vars

\* SpecFields: partial updates of the columns of the first note, next to a second
FieldCreates == {[Title |-> "A", Content |-> "x", Category |-> "", Published |-> FALSE],
                 [Title |-> "B", Content |-> "x", Category |-> "c", Published |-> TRUE]}
FieldUpdates == [Title : {""}, Content : {""}, Category : {"", "d"}, Published : PublishedPtrs]

NextFields ==
    \/ \E payload \in FieldCreates : CreateNoteHandler(payload, 0, TRUE, TRUE)
    \/ \E s \in Slots, payload \in FieldUpdates : UpdateNoteFind(s, 1, payload, TRUE, TRUE)
    \/ \E s \in Slots, now \in Times, ok \in BOOLEAN : UpdateNoteWrite(s, now, ok)
    \/ \E noteId \in 1..MaxIds : DeleteNote(noteId, TRUE)

SpecFields == Init /\ [][NextFields]_vars

\* SpecList: pages of the table over every query value
ListCreates == [Title : Titles \cup {"C"}, Content : {"x"}, Category : {""}, Published : {FALSE}]

NextList ==
    \/ \E payload \in ListCreates : CreateNoteHandler(payload, 0, TRUE, TRUE)
    \/ \E pageQ \in QueryValues, limitQ \in QueryValues, limitZero \in BOOLEAN, ok \in BOOLEAN :
          FindNotes(pageQ, limitQ, limitZero, ok)
    \/ \E noteId \in 1..MaxIds : DeleteNote(noteId, TRUE)

SpecList == Init /\ [][NextList]_vars

\* ===================================================================== claims
TypeOK ==
    /\ nextId \in 1..(MaxIds + 1)
    /\ DOMAIN notes \subseteq 1..(nextId - 1)
    /\ gone = (1..(nextId - 1)) \ DOMAIN notes

TitleTaken(store, title) == \E j \in DOMAIN store : store[j].Title = title

\* C1: in every reachable state no two stored notes have the same title,
\* whatever Create, Update and Delete requests ran and however they interleaved.
C1_UniqueTitles ==
    \A i \in DOMAIN notes, j \in DOMAIN notes : i # j => notes[i].Title # notes[j].Title

\* two notes are stored and the store has just rejected an Update's duplicate title
C1_Witness ==
    /\ Cardinality(DOMAIN notes) = 2
    /\ resp.op = "Update"
    /\ resp.dbError = ErrDuplicate

\* C2: a Create whose input passes validation and whose title is the title of
\* a stored note, on a store that executes the statement, responds 409 and
\* leaves every stored note as it was.
C2_DuplicateCreateIs409 ==
    [][resp'.op = "Create" => \A payload \in CreateInputs :
          (/\ ValidateStruct(payload) = << >>
           /\ TitleTaken(notes, payload.Title)
           /\ CreateNoteHandler(payload, 0, TRUE, TRUE))
          => (resp'.status = StatusConflict /\ notes' = notes)]_vars

\* a Create was answered 409 while a note is stored
C2_Witness ==
    /\ resp.op = "Create"
    /\ resp.status = StatusConflict
    /\ Cardinality(DOMAIN notes) = 1

\* C3: when the store write of an Update fails the response is 502, and the
\* response is 200 only when the write changed the stored note.
C3_UpdateFailureIs502 ==
    [][resp'.op = "Update" => \A s \in Slots, now \in Times, ok \in BOOLEAN :
          UpdateNoteWrite(s, now, ok)
          => LET result == DBUpdates(notes, inflight[s].id,
                                     BuildUpdates(inflight[s].payload, now), ok)
             IN /\ result.Error # ErrNone => resp'.status = StatusBadGateway
                /\ resp'.status = StatusOK => result.RowsAffected = 1]_vars

\* C4: Delete responds 502 when the store statement fails, 404 when it
\* succeeds on no row, and 204 when it removes a row.
C4_DeleteStatus ==
    [][resp'.op = "Delete" => \A noteId \in PathIds, ok \in BOOLEAN :
          DeleteNote(noteId, ok)
          => LET result == DBDelete(notes, noteId, ok)
             IN resp'.status = IF result.Error # ErrNone THEN StatusBadGateway
                               ELSE IF result.RowsAffected = 0 THEN StatusNotFound
                               ELSE StatusNoContent]_vars

\* C5 as stated: for every accepted page and limit, List returns at most L
\* notes, L the limit it computed, starting at offset (page-1)*L, and results
\* is the number of notes returned.
C5_ListAtMostLimit ==
    (resp.op = "List" /\ resp.status = StatusOK) =>
        LET all == Scan(notes, DOMAIN notes)
        IN /\ resp.results = Len(resp.listed)
           /\ Len(resp.listed) <= resp.limit
           /\ \A k \in 1..Len(resp.listed) :
                 /\ resp.offset + k \in 1..Len(all)
                 /\ resp.listed[k] = all[resp.offset + k]

\* C5 amended: results is the number of notes returned; the notes are
\* consecutive rows of the table starting at offset (page-1)*L, or at the
\* first row when that offset is negative; and they are at most L when L >= 1.
C5_ListPage ==
    (resp.op = "List" /\ resp.status = StatusOK) =>
        LET all == Scan(notes, DOMAIN notes)
            from == IF resp.offset > 0 THEN resp.offset ELSE 0
        IN /\ resp.results = Len(resp.listed)
           /\ resp.limit >= 1 => Len(resp.listed) <= resp.limit
           /\ \A k \in 1..Len(resp.listed) :
                 /\ from + k \in 1..Len(all)
                 /\ resp.listed[k] = all[from + k]

\* page 2 of limit 1 over two stored notes: one note, the second
C5_Witness ==
    /\ resp.op = "List"
    /\ resp.status = StatusOK
    /\ resp.limit = 1
    /\ resp.offset = 1
    /\ resp.results = 1
    /\ Cardinality(DOMAIN notes) = 2
    /\ resp.listed[1].ID = 2

CategoryOnly(payload) ==
    /\ payload.Title = ""
    /\ payload.Content = ""
    /\ payload.Published = << >>
    /\ payload.Category # ""

\* the step in which the UpdateNote request of slot s performs its write and responds
WriteStep(s) == inflight[s].busy /\ ~inflight'[s].busy

\* C6: the write of an Update whose input has only category leaves every other
\* note, and the id, title, content, published and createdAt of its own note,
\* as they were; when the store executes it on the stored note, the note's
\* category is the input's and its updatedAt the time of the request.
C6_CategoryOnlyFrame ==
    [][\A s \in Slots :
          (WriteStep(s) /\ CategoryOnly(inflight[s].payload))
          => LET id == inflight[s].id
             IN /\ DOMAIN notes' = DOMAIN notes
                /\ \A j \in DOMAIN notes \ {id} : notes'[j] = notes[j]
                /\ id \in DOMAIN notes =>
                      /\ notes'[id].ID = notes[id].ID
                      /\ notes'[id].Title = notes[id].Title
                      /\ notes'[id].Content = notes[id].Content
                      /\ notes'[id].Published = notes[id].Published
                      /\ notes'[id].CreatedAt = notes[id].CreatedAt
                      /\ resp'.dbError = ErrNone =>
                            /\ notes'[id].Category = inflight[s].payload.Category
                            /\ \E now \in Times : /\ UpdateNoteWrite(s, now, TRUE)
                                                  /\ notes'[id].UpdatedAt = now]_vars

\* a category-only Update changed category and updatedAt of one of two notes
C6_Witness ==
    /\ resp.op = "Update"
    /\ resp.status = StatusOK
    /\ resp.dbError = ErrNone
    /\ resp.cols = {"category", "updated_at"}
    /\ Cardinality(DOMAIN notes) = 2
    /\ resp.id \in DOMAIN notes
    /\ notes[resp.id].Category # resp.note.Category
    /\ notes[resp.id].UpdatedAt # resp.note.UpdatedAt
    /\ notes[resp.id].Content = resp.note.Content
    /\ notes[resp.id].Published = resp.note.Published
    /\ notes[resp.id].Published

\* C7: the write of an Update, executed by the store on the stored note, sets
\* published to the input's value when the input has one (false included);
\* an Update whose input has no published leaves the stored value as it was.
C7_PublishedTriState ==
    [][\A s \in Slots :
          (WriteStep(s) /\ inflight[s].id \in DOMAIN notes)
          => LET id == inflight[s].id
                 published == inflight[s].payload.Published
             IN /\ id \in DOMAIN notes'
                /\ published = << >> => notes'[id].Published = notes[id].Published
                /\ (published # << >> /\ resp'.dbError = ErrNone)
                      => notes'[id].Published = published[1]]_vars

\* an Update with published=false turned a stored true into false
C7_Witness ==
    /\ resp.op = "Update"
    /\ resp.status = StatusOK
    /\ "published" \in resp.cols
    /\ resp.note.Published
    /\ resp.id \in DOMAIN notes
    /\ ~notes[resp.id].Published

\* C8: an id Delete has answered 204 for is never stored again and stays
\* answered; a later Get for it is answered 404 when the store executes the
\* read (502 when it does not), never 200.
C8_DeletedStaysGone ==
    [][/\ gone \subseteq gone'
       /\ gone' \cap DOMAIN notes' = {}
       /\ resp'.op = "Get" => \A noteId \in gone, ok \in BOOLEAN :
             FindNoteById(noteId, ok) => resp'.status = IF ok THEN StatusNotFound ELSE StatusBadGateway]_vars

\* an Update that passed its existence check wrote after the Delete's 204
C8_Witness ==
    /\ resp.op = "Update"
    /\ resp.status = StatusOK
    /\ resp.id \in gone
    /\ resp.note = NoRow

\* C9: Get and Delete on an id no note is stored for respond 404 and leave the
\* store as it was (on a store that executes the statement).
C9_AbsentIs404 ==
    [][\A noteId \in PathIds :
          noteId \notin DOMAIN notes =>
             /\ (resp'.op = "Get" /\ FindNoteById(noteId, TRUE))
                   => (resp'.status = StatusNotFound /\ notes' = notes)
             /\ (resp'.op = "Delete" /\ DeleteNote(noteId, TRUE))
                   => (resp'.status = StatusNotFound /\ notes' = notes)]_vars

FailingFields(payload) ==
    (IF payload.Title = "" THEN {"CreateNoteSchema.Title"} ELSE {})
    \cup (IF payload.Content = "" THEN {"CreateNoteSchema.Content"} ELSE {})

\* C10: a Create whose decoded input has an empty title or content responds 400
\* with one violation per failing field and inserts nothing; a Create with
\* both non-empty is not answered 400 and its note is stored when the store
\* accepts the Insert.
C10_ValidationGate ==
    [][resp'.op = "Create" => \A payload \in CreateInputs, ok \in BOOLEAN :
          CreateNoteHandler(payload, 0, TRUE, ok)
          => IF FailingFields(payload) # {}
             THEN /\ resp'.status = StatusBadRequest
                  /\ Len(resp'.errors) = Cardinality(FailingFields(payload))
                  /\ {resp'.errors[k].Field : k \in 1..Len(resp'.errors)} = FailingFields(payload)
                  /\ notes' = notes
                  /\ nextId' = nextId
             ELSE /\ resp'.status # StatusBadRequest
                  /\ resp'.errors = << >>
                  /\ (ok /\ ~TitleTaken(notes, payload.Title))
                        => (nextId \in DOMAIN notes' /\ notes'[nextId].Title = payload.Title)]_vars

\* a Create with neither title nor content was answered 400 with two violations
C10_Witness ==
    /\ resp.op = "Create"
    /\ resp.status = StatusBadRequest
    /\ Len(resp.errors) = 2
    /\ notes # << >>
====
